---- MODULE Spec2Model ----
(***************************************************************************)
(* A model of ACHFileReader (src/ach_functions.py): read_file and the line *)
(* dispatcher _parse_ach_file, the six record decoders it calls, and the   *)
(* search over the parsed entries.                                         *)
(*                                                                         *)
(* Python values are modelled as follows.                                  *)
(*   str       a tuple of characters ('' is << >>).  A character is a      *)
(*             one-character string; a character outside ASCII, which no   *)
(*             string of this notation can hold, is the string "U+" and    *)
(*             its code point in hexadecimal: "U+0662" is ARABIC-INDIC     *)
(*             DIGIT TWO                                                   *)
(*   int       its canonical decimal numeral, a str without leading zeros  *)
(*             and with a leading '-' when negative (Python ints are       *)
(*             unbounded; the fields hold up to 17 digits)                 *)
(*   float     an IEEE-754 double [neg, mant, exp]: mant is the 53-bit     *)
(*             significand, most significant bit first, exp the exponent   *)
(*             of its leading bit; 0.0 has mant = << >>                    *)
(*   datetime  [year, month, day, hour, minute]                            *)
(*   dict      a record; {} is the record with no field                    *)
(* A field that holds either a datetime or a str (the date fields) holds   *)
(* the str wrapped as [str |-> s], so that the two stay comparable.        *)
(***************************************************************************)
EXTENDS Integers, Sequences, FiniteSets, TLC

LINE_LENGTH == 94

(***************************************************************************)
(* str primitives                                                          *)
(***************************************************************************)
Min(a, b) == IF a < b THEN a ELSE b

DigitChars == <<"0", "1", "2", "3", "4", "5", "6", "7", "8", "9">>

\* [a-b] in a regular expression, a and b digits
Range(a, b) == {DigitChars[i + 1] : i \in a..b}

\* The decimal digits of Unicode 14.0 (Python 3.11), one row per script, the digit
\* of value i at place i + 1: the characters int() reads as digits and \d matches.
DecimalDigits ==
 << <<"0", "1", "2", "3", "4", "5", "6", "7", "8", "9">>,
    <<"U+0660", "U+0661", "U+0662", "U+0663", "U+0664",
      "U+0665", "U+0666", "U+0667", "U+0668", "U+0669">>,
    <<"U+06F0", "U+06F1", "U+06F2", "U+06F3", "U+06F4",
      "U+06F5", "U+06F6", "U+06F7", "U+06F8", "U+06F9">>,
    <<"U+07C0", "U+07C1", "U+07C2", "U+07C3", "U+07C4",
      "U+07C5", "U+07C6", "U+07C7", "U+07C8", "U+07C9">>,
    <<"U+0966", "U+0967", "U+0968", "U+0969", "U+096A",
      "U+096B", "U+096C", "U+096D", "U+096E", "U+096F">>,
    <<"U+09E6", "U+09E7", "U+09E8", "U+09E9", "U+09EA",
      "U+09EB", "U+09EC", "U+09ED", "U+09EE", "U+09EF">>,
    <<"U+0A66", "U+0A67", "U+0A68", "U+0A69", "U+0A6A",
      "U+0A6B", "U+0A6C", "U+0A6D", "U+0A6E", "U+0A6F">>,
    <<"U+0AE6", "U+0AE7", "U+0AE8", "U+0AE9", "U+0AEA",
      "U+0AEB", "U+0AEC", "U+0AED", "U+0AEE", "U+0AEF">>,
    <<"U+0B66", "U+0B67", "U+0B68", "U+0B69", "U+0B6A",
      "U+0B6B", "U+0B6C", "U+0B6D", "U+0B6E", "U+0B6F">>,
    <<"U+0BE6", "U+0BE7", "U+0BE8", "U+0BE9", "U+0BEA",
      "U+0BEB", "U+0BEC", "U+0BED", "U+0BEE", "U+0BEF">>,
    <<"U+0C66", "U+0C67", "U+0C68", "U+0C69", "U+0C6A",
      "U+0C6B", "U+0C6C", "U+0C6D", "U+0C6E", "U+0C6F">>,
    <<"U+0CE6", "U+0CE7", "U+0CE8", "U+0CE9", "U+0CEA",
      "U+0CEB", "U+0CEC", "U+0CED", "U+0CEE", "U+0CEF">>,
    <<"U+0D66", "U+0D67", "U+0D68", "U+0D69", "U+0D6A",
      "U+0D6B", "U+0D6C", "U+0D6D", "U+0D6E", "U+0D6F">>,
    <<"U+0DE6", "U+0DE7", "U+0DE8", "U+0DE9", "U+0DEA",
      "U+0DEB", "U+0DEC", "U+0DED", "U+0DEE", "U+0DEF">>,
    <<"U+0E50", "U+0E51", "U+0E52", "U+0E53", "U+0E54",
      "U+0E55", "U+0E56", "U+0E57", "U+0E58", "U+0E59">>,
    <<"U+0ED0", "U+0ED1", "U+0ED2", "U+0ED3", "U+0ED4",
      "U+0ED5", "U+0ED6", "U+0ED7", "U+0ED8", "U+0ED9">>,
    <<"U+0F20", "U+0F21", "U+0F22", "U+0F23", "U+0F24",
      "U+0F25", "U+0F26", "U+0F27", "U+0F28", "U+0F29">>,
    <<"U+1040", "U+1041", "U+1042", "U+1043", "U+1044",
      "U+1045", "U+1046", "U+1047", "U+1048", "U+1049">>,
    <<"U+1090", "U+1091", "U+1092", "U+1093", "U+1094",
      "U+1095", "U+1096", "U+1097", "U+1098", "U+1099">>,
    <<"U+17E0", "U+17E1", "U+17E2", "U+17E3", "U+17E4",
      "U+17E5", "U+17E6", "U+17E7", "U+17E8", "U+17E9">>,
    <<"U+1810", "U+1811", "U+1812", "U+1813", "U+1814",
      "U+1815", "U+1816", "U+1817", "U+1818", "U+1819">>,
    <<"U+1946", "U+1947", "U+1948", "U+1949", "U+194A",
      "U+194B", "U+194C", "U+194D", "U+194E", "U+194F">>,
    <<"U+19D0", "U+19D1", "U+19D2", "U+19D3", "U+19D4",
      "U+19D5", "U+19D6", "U+19D7", "U+19D8", "U+19D9">>,
    <<"U+1A80", "U+1A81", "U+1A82", "U+1A83", "U+1A84",
      "U+1A85", "U+1A86", "U+1A87", "U+1A88", "U+1A89">>,
    <<"U+1A90", "U+1A91", "U+1A92", "U+1A93", "U+1A94",
      "U+1A95", "U+1A96", "U+1A97", "U+1A98", "U+1A99">>,
    <<"U+1B50", "U+1B51", "U+1B52", "U+1B53", "U+1B54",
      "U+1B55", "U+1B56", "U+1B57", "U+1B58", "U+1B59">>,
    <<"U+1BB0", "U+1BB1", "U+1BB2", "U+1BB3", "U+1BB4",
      "U+1BB5", "U+1BB6", "U+1BB7", "U+1BB8", "U+1BB9">>,
    <<"U+1C40", "U+1C41", "U+1C42", "U+1C43", "U+1C44",
      "U+1C45", "U+1C46", "U+1C47", "U+1C48", "U+1C49">>,
    <<"U+1C50", "U+1C51", "U+1C52", "U+1C53", "U+1C54",
      "U+1C55", "U+1C56", "U+1C57", "U+1C58", "U+1C59">>,
    <<"U+A620", "U+A621", "U+A622", "U+A623", "U+A624",
      "U+A625", "U+A626", "U+A627", "U+A628", "U+A629">>,
    <<"U+A8D0", "U+A8D1", "U+A8D2", "U+A8D3", "U+A8D4",
      "U+A8D5", "U+A8D6", "U+A8D7", "U+A8D8", "U+A8D9">>,
    <<"U+A900", "U+A901", "U+A902", "U+A903", "U+A904",
      "U+A905", "U+A906", "U+A907", "U+A908", "U+A909">>,
    <<"U+A9D0", "U+A9D1", "U+A9D2", "U+A9D3", "U+A9D4",
      "U+A9D5", "U+A9D6", "U+A9D7", "U+A9D8", "U+A9D9">>,
    <<"U+A9F0", "U+A9F1", "U+A9F2", "U+A9F3", "U+A9F4",
      "U+A9F5", "U+A9F6", "U+A9F7", "U+A9F8", "U+A9F9">>,
    <<"U+AA50", "U+AA51", "U+AA52", "U+AA53", "U+AA54",
      "U+AA55", "U+AA56", "U+AA57", "U+AA58", "U+AA59">>,
    <<"U+ABF0", "U+ABF1", "U+ABF2", "U+ABF3", "U+ABF4",
      "U+ABF5", "U+ABF6", "U+ABF7", "U+ABF8", "U+ABF9">>,
    <<"U+FF10", "U+FF11", "U+FF12", "U+FF13", "U+FF14",
      "U+FF15", "U+FF16", "U+FF17", "U+FF18", "U+FF19">>,
    <<"U+104A0", "U+104A1", "U+104A2", "U+104A3", "U+104A4",
      "U+104A5", "U+104A6", "U+104A7", "U+104A8", "U+104A9">>,
    <<"U+10D30", "U+10D31", "U+10D32", "U+10D33", "U+10D34",
      "U+10D35", "U+10D36", "U+10D37", "U+10D38", "U+10D39">>,
    <<"U+11066", "U+11067", "U+11068", "U+11069", "U+1106A",
      "U+1106B", "U+1106C", "U+1106D", "U+1106E", "U+1106F">>,
    <<"U+110F0", "U+110F1", "U+110F2", "U+110F3", "U+110F4",
      "U+110F5", "U+110F6", "U+110F7", "U+110F8", "U+110F9">>,
    <<"U+11136", "U+11137", "U+11138", "U+11139", "U+1113A",
      "U+1113B", "U+1113C", "U+1113D", "U+1113E", "U+1113F">>,
    <<"U+111D0", "U+111D1", "U+111D2", "U+111D3", "U+111D4",
      "U+111D5", "U+111D6", "U+111D7", "U+111D8", "U+111D9">>,
    <<"U+112F0", "U+112F1", "U+112F2", "U+112F3", "U+112F4",
      "U+112F5", "U+112F6", "U+112F7", "U+112F8", "U+112F9">>,
    <<"U+11450", "U+11451", "U+11452", "U+11453", "U+11454",
      "U+11455", "U+11456", "U+11457", "U+11458", "U+11459">>,
    <<"U+114D0", "U+114D1", "U+114D2", "U+114D3", "U+114D4",
      "U+114D5", "U+114D6", "U+114D7", "U+114D8", "U+114D9">>,
    <<"U+11650", "U+11651", "U+11652", "U+11653", "U+11654",
      "U+11655", "U+11656", "U+11657", "U+11658", "U+11659">>,
    <<"U+116C0", "U+116C1", "U+116C2", "U+116C3", "U+116C4",
      "U+116C5", "U+116C6", "U+116C7", "U+116C8", "U+116C9">>,
    <<"U+11730", "U+11731", "U+11732", "U+11733", "U+11734",
      "U+11735", "U+11736", "U+11737", "U+11738", "U+11739">>,
    <<"U+118E0", "U+118E1", "U+118E2", "U+118E3", "U+118E4",
      "U+118E5", "U+118E6", "U+118E7", "U+118E8", "U+118E9">>,
    <<"U+11950", "U+11951", "U+11952", "U+11953", "U+11954",
      "U+11955", "U+11956", "U+11957", "U+11958", "U+11959">>,
    <<"U+11C50", "U+11C51", "U+11C52", "U+11C53", "U+11C54",
      "U+11C55", "U+11C56", "U+11C57", "U+11C58", "U+11C59">>,
    <<"U+11D50", "U+11D51", "U+11D52", "U+11D53", "U+11D54",
      "U+11D55", "U+11D56", "U+11D57", "U+11D58", "U+11D59">>,
    <<"U+11DA0", "U+11DA1", "U+11DA2", "U+11DA3", "U+11DA4",
      "U+11DA5", "U+11DA6", "U+11DA7", "U+11DA8", "U+11DA9">>,
    <<"U+16A60", "U+16A61", "U+16A62", "U+16A63", "U+16A64",
      "U+16A65", "U+16A66", "U+16A67", "U+16A68", "U+16A69">>,
    <<"U+16AC0", "U+16AC1", "U+16AC2", "U+16AC3", "U+16AC4",
      "U+16AC5", "U+16AC6", "U+16AC7", "U+16AC8", "U+16AC9">>,
    <<"U+16B50", "U+16B51", "U+16B52", "U+16B53", "U+16B54",
      "U+16B55", "U+16B56", "U+16B57", "U+16B58", "U+16B59">>,
    <<"U+1D7CE", "U+1D7CF", "U+1D7D0", "U+1D7D1", "U+1D7D2",
      "U+1D7D3", "U+1D7D4", "U+1D7D5", "U+1D7D6", "U+1D7D7">>,
    <<"U+1D7D8", "U+1D7D9", "U+1D7DA", "U+1D7DB", "U+1D7DC",
      "U+1D7DD", "U+1D7DE", "U+1D7DF", "U+1D7E0", "U+1D7E1">>,
    <<"U+1D7E2", "U+1D7E3", "U+1D7E4", "U+1D7E5", "U+1D7E6",
      "U+1D7E7", "U+1D7E8", "U+1D7E9", "U+1D7EA", "U+1D7EB">>,
    <<"U+1D7EC", "U+1D7ED", "U+1D7EE", "U+1D7EF", "U+1D7F0",
      "U+1D7F1", "U+1D7F2", "U+1D7F3", "U+1D7F4", "U+1D7F5">>,
    <<"U+1D7F6", "U+1D7F7", "U+1D7F8", "U+1D7F9", "U+1D7FA",
      "U+1D7FB", "U+1D7FC", "U+1D7FD", "U+1D7FE", "U+1D7FF">>,
    <<"U+1E140", "U+1E141", "U+1E142", "U+1E143", "U+1E144",
      "U+1E145", "U+1E146", "U+1E147", "U+1E148", "U+1E149">>,
    <<"U+1E2F0", "U+1E2F1", "U+1E2F2", "U+1E2F3", "U+1E2F4",
      "U+1E2F5", "U+1E2F6", "U+1E2F7", "U+1E2F8", "U+1E2F9">>,
    <<"U+1E950", "U+1E951", "U+1E952", "U+1E953", "U+1E954",
      "U+1E955", "U+1E956", "U+1E957", "U+1E958", "U+1E959">>,
    <<"U+1FBF0", "U+1FBF1", "U+1FBF2", "U+1FBF3", "U+1FBF4",
      "U+1FBF5", "U+1FBF6", "U+1FBF7", "U+1FBF8", "U+1FBF9">> >>

Digit == {DecimalDigits[r][i] : r \in 1..Len(DecimalDigits), i \in 1..10}

DecimalValue ==
    [c \in Digit |->
        (CHOOSE i \in 1..10 : \E r \in 1..Len(DecimalDigits) : DecimalDigits[r][i] = c) - 1]

DigitVal(c) == DecimalValue[c]

\* the characters U+001C to U+001F: FILE, GROUP, RECORD and UNIT SEPARATOR
Separators == {"", "", "", ""}

\* The characters str.strip() removes: those str.isspace() holds of, which are
\* U+0009 to U+000D, the separators, the blank and 19 characters outside ASCII.
Whitespace ==
    Separators \cup
    {"\t", "\n", "", "\f", "\r", " ", "U+0085", "U+00A0",
     "U+1680", "U+2000", "U+2001", "U+2002", "U+2003", "U+2004", "U+2005", "U+2006",
     "U+2007", "U+2008", "U+2009", "U+200A", "U+2028", "U+2029", "U+202F", "U+205F",
     "U+3000"}

\* The characters int() skips around a number: the whitespace but for the separators.
IntWhitespace == Whitespace \ Separators

\* c * n
Rep(c, n) == [i \in 1..n |-> c]

\* s[a:b] for 0 <= a <= b: the slice is cut at the end of s.
Slice(s, a, b) == IF a >= Min(b, Len(s)) THEN << >> ELSE SubSeq(s, a + 1, Min(b, Len(s)))

\* s.startswith(c) for a one-character c
StartsWith(s, c) == Len(s) >= 1 /\ s[1] = c

\* s without the characters of set at its start, at its end
RECURSIVE LStripOf(_, _)
LStripOf(s, set) == IF s # << >> /\ s[1] \in set THEN LStripOf(Tail(s), set) ELSE s

RECURSIVE RStripOf(_, _)
RStripOf(s, set) ==
    IF s # << >> /\ s[Len(s)] \in set THEN RStripOf(SubSeq(s, 1, Len(s) - 1), set) ELSE s

LStrip(s) == LStripOf(s, Whitespace)

RStrip(s) == RStripOf(s, Whitespace)

\* s.strip()
Strip(s) == RStrip(LStrip(s))

\* s.replace(c, '') for a one-character c
Remove(s, c) == SelectSeq(s, LAMBDA x : x # c)

(***************************************************************************)
(* int(s): surrounding whitespace is dropped, then an optional sign, then  *)
(* decimal digits in which single underscores may separate digits.         *)
(***************************************************************************)
IntStrip(s) == RStripOf(LStripOf(s, IntWhitespace), IntWhitespace)

IntBody(s) ==
    LET t == IntStrip(s)
    IN  IF t # << >> /\ t[1] \in {"+", "-"} THEN Tail(t) ELSE t

IntNegative(s) == LET t == IntStrip(s) IN t # << >> /\ t[1] = "-"

\* int(s) does not raise ValueError
IntParses(s) ==
    LET b == IntBody(s)
    IN  /\ b # << >>
        /\ \A i \in 1..Len(b) : b[i] \in Digit \cup {"_"}
        /\ b[1] \in Digit
        /\ b[Len(b)] \in Digit
        /\ \A i \in 1..(Len(b) - 1) : ~(b[i] = "_" /\ b[i + 1] = "_")

RECURSIVE DropZeros(_)
DropZeros(d) == IF Len(d) > 1 /\ d[1] = "0" THEN DropZeros(Tail(d)) ELSE d

Zero == <<"0">>

\* the value of int(s) when IntParses(s)
IntValue(s) ==
    LET digits == Remove(IntBody(s), "_")
        mag == DropZeros([i \in 1..Len(digits) |-> DigitChars[DigitVal(digits[i]) + 1]])
    IN  IF IntNegative(s) /\ mag # Zero THEN <<"-">> \o mag ELSE mag

(***************************************************************************)
(* datetime.strptime(s, format) for formats made of the directives         *)
(* %y %m %d %H %M only.  _strptime turns the format into a regular         *)
(* expression, one group of ordered alternatives per directive, matches it *)
(* at the start of s (re.match: the first match in alternative order, with *)
(* backtracking), raises ValueError when nothing matches or when the match *)
(* stops before the end of s, and raises ValueError when the day does not  *)
(* exist in the month.                                                     *)
(***************************************************************************)
\* The regular expression of each directive, as _strptime.TimeRE has it: its
\* alternatives in order, an alternative being a sequence of character classes
\* (\d is Digit, [a-b] a Range).
DirectivePatterns ==
    [directive \in {"y", "m", "d", "H", "M"} |->
        CASE directive = "y" -> << <<Digit, Digit>> >>
          [] directive = "m" -> << <<{"1"}, Range(0, 2)>>,
                                   <<{"0"}, Range(1, 9)>>,
                                   <<Range(1, 9)>> >>
          [] directive = "d" -> << <<{"3"}, Range(0, 1)>>,
                                   <<Range(1, 2), Digit>>,
                                   <<{"0"}, Range(1, 9)>>,
                                   <<Range(1, 9)>>,
                                   <<{" "}, Range(1, 9)>> >>
          [] directive = "H" -> << <<{"2"}, Range(0, 3)>>,
                                   <<Range(0, 1), Digit>>,
                                   <<Digit>> >>
          [] directive = "M" -> << <<Range(0, 5), Digit>>,
                                   <<Digit>> >>]

Alternatives(directive) == DirectivePatterns[directive]

\* the alternative alt matches s at (0-based) position pos
AltMatches(s, pos, alt) ==
    /\ pos + Len(alt) <= Len(s)
    /\ \A k \in 1..Len(alt) : s[pos + k] \in alt[k]

NoMatch == [ok |-> FALSE, end |-> 0, groups |-> << >>]

\* The first match of the directives fmt[fi..] at position pos of s, trying the
\* alternatives of fmt[fi] from the ai-th on.
RECURSIVE ReMatch(_, _, _, _, _)
ReMatch(s, fmt, fi, pos, ai) ==
    IF fi > Len(fmt) THEN [ok |-> TRUE, end |-> pos, groups |-> << >>]
    ELSE LET alts == Alternatives(fmt[fi])
         IN  IF ai > Len(alts) THEN NoMatch
             ELSE IF AltMatches(s, pos, alts[ai])
                  THEN LET n == Len(alts[ai])
                           rest == ReMatch(s, fmt, fi + 1, pos + n, 1)
                       IN  IF rest.ok
                           THEN [ok |-> TRUE, end |-> rest.end,
                                 groups |-> <<Slice(s, pos, pos + n)>> \o rest.groups]
                           ELSE ReMatch(s, fmt, fi, pos, ai + 1)
                  ELSE ReMatch(s, fmt, fi, pos, ai + 1)

\* int() of a matched group: one or two digits, the day possibly led by a blank
GroupVal(g) ==
    LET d == Remove(g, " ")
    IN  IF Len(d) = 1 THEN DigitVal(d[1]) ELSE 10 * DigitVal(d[1]) + DigitVal(d[2])

\* the value of directive dv in a match, or dflt when the format has no such directive
Field(fmt, groups, dv, dflt) ==
    IF \E i \in 1..Len(fmt) : fmt[i] = dv
    THEN GroupVal(groups[CHOOSE i \in 1..Len(fmt) : fmt[i] = dv])
    ELSE dflt

\* %y: 69-99 are 1969-1999, 00-68 are 2000-2068
FullYear(yy) == IF yy <= 68 THEN 2000 + yy ELSE 1900 + yy

IsLeap(year) == year % 4 = 0 /\ (year % 100 # 0 \/ year % 400 = 0)

DaysInMonth(year, month) ==
    IF month = 2 THEN (IF IsLeap(year) THEN 29 ELSE 28)
    ELSE IF month \in {4, 6, 9, 11} THEN 30 ELSE 31

\* the datetime strptime builds from a full match
MatchedDate(fmt, groups) ==
    [year |-> FullYear(Field(fmt, groups, "y", 0)),
     month |-> Field(fmt, groups, "m", 1),
     day |-> Field(fmt, groups, "d", 1),
     hour |-> Field(fmt, groups, "H", 0),
     minute |-> Field(fmt, groups, "M", 0)]

\* datetime.strptime(s, fmt) does not raise ValueError
StrptimeParses(s, fmt) ==
    LET m == ReMatch(s, fmt, 1, 0, 1)
    IN  /\ m.ok
        /\ m.end = Len(s)
        /\ LET dt == MatchedDate(fmt, m.groups)
           IN  dt.day <= DaysInMonth(dt.year, dt.month)

\* the value of datetime.strptime(s, fmt) when StrptimeParses(s, fmt)
Strptime(s, fmt) == MatchedDate(fmt, ReMatch(s, fmt, 1, 0, 1).groups)

(***************************************************************************)
(* n / 100 for an int n: true division, the double nearest to the quotient *)
(* (round half to even).  The quotient's integer part is n without its     *)
(* last two decimal digits and its fraction is those two digits over 100;  *)
(* the significand is the first 53 bits of the binary expansion, rounded   *)
(* on the bits that follow.  Covers |n| < 2^53 * 100.                      *)
(***************************************************************************)
\* the number v < 2^w as w bits, most significant first
FixedBits(v, w) == [j \in 1..w |-> (v \div 2^(w - j)) % 2]

\* the bits of the number v < 2^15 from its first one bit on
BitsOf(v) ==
    LET w == CHOOSE l \in 0..15 : v < 2^l /\ (l = 0 \/ v >= 2^(l - 1))
    IN  FixedBits(v, w)

\* the decimal numeral ds divided by 2^15, digit by digit from position i with carry c
RECURSIVE DivFrom(_, _, _)
DivFrom(ds, i, c) ==
    IF i > Len(ds) THEN << >>
    ELSE LET v == 10 * c + DigitVal(ds[i])
         IN  <<DigitChars[(v \div 32768) + 1]>> \o DivFrom(ds, i + 1, v % 32768)

\* what that division leaves
RECURSIVE RemFrom(_, _, _)
RemFrom(ds, i, c) ==
    IF i > Len(ds) THEN c
    ELSE LET v == (10 * c + DigitVal(ds[i])) % 32768
         IN  IF v >= 0 THEN RemFrom(ds, i + 1, v) ELSE 0

\* the bits of the natural number with decimal numeral ds, most significant first,
\* fifteen at a time from the last ones
RECURSIVE ToBits(_)
ToBits(ds) ==
    LET q == DropZeros(DivFrom(ds, 1, 0))
        r == RemFrom(ds, 1, 0)
    IN  IF q = Zero THEN BitsOf(r) ELSE ToBits(q) \o FixedBits(r, 15)

\* 100 times what is left of r / 100 after its first n bits (0 <= r < 100)
RECURSIVE FracRest(_, _)
FracRest(r, n) ==
    IF n <= 20 THEN (r * 2^n) % 100 ELSE FracRest((r * 2^20) % 100, n - 20)

\* the first n bits of the binary expansion of r / 100 (0 <= r < 100), twenty at a
\* time
RECURSIVE FracBits(_, _)
FracBits(r, n) ==
    IF n <= 20 THEN FixedBits((r * 2^n) \div 100, n)
    ELSE FixedBits((r * 2^20) \div 100, 20) \o FracBits((r * 2^20) % 100, n - 20)

\* the number of zero bits that lead the binary expansion of r / 100 (0 < r < 100)
RECURSIVE LeadZeros(_)
LeadZeros(r) == IF 2 * r >= 100 THEN 0 ELSE 1 + LeadZeros(2 * r)

\* bits + 1: the last zero bit becomes one and the ones after it zero; all ones wrap
\* to all zeros
Increment(bits) ==
    LET zeros == {i \in 1..Len(bits) : bits[i] = 0}
        p == IF zeros = {} THEN 0 ELSE CHOOSE i \in zeros : \A j \in zeros : j <= i
    IN  [i \in 1..Len(bits) |-> IF i < p THEN bits[i] ELSE IF i = p THEN 1 ELSE 0]

MantBits == 53

\* round-half-even of the significand raw given the bit after it and whether
\* anything non-zero follows that bit
RoundFloat(neg, raw, exp, guard, sticky) ==
    IF guard = 1 /\ (sticky \/ raw[MantBits] = 1)
    THEN IF \A i \in 1..MantBits : raw[i] = 1
         THEN [neg |-> neg, mant |-> <<1>> \o Rep(0, MantBits - 1), exp |-> exp + 1]
         ELSE [neg |-> neg, mant |-> Increment(raw), exp |-> exp]
    ELSE [neg |-> neg, mant |-> raw, exp |-> exp]

FloatZero == [neg |-> FALSE, mant |-> << >>, exp |-> 0]

TrueDiv100(n) ==
    LET neg  == n[1] = "-"
        mag  == IF neg THEN Tail(n) ELSE n
        ip   == IF Len(mag) > 2 THEN SubSeq(mag, 1, Len(mag) - 2) ELSE Zero
        f    == IF Len(mag) = 1 THEN DigitVal(mag[1])
                ELSE 10 * DigitVal(mag[Len(mag) - 1]) + DigitVal(mag[Len(mag)])
        ib   == ToBits(ip)
        k    == Len(ib)
        z    == IF k = 0 /\ f > 0 THEN LeadZeros(f) ELSE 0
        nf   == IF k = 0 THEN z + MantBits ELSE MantBits - k
        raw  == IF k = 0 THEN SubSeq(FracBits(f, nf), z + 1, nf) ELSE ib \o FracBits(f, nf)
        rest == FracRest(f, nf)
    IN  IF mag = Zero THEN FloatZero
        ELSE RoundFloat(neg, raw, IF k = 0 THEN -(z + 1) ELSE k - 1,
                        (2 * rest) \div 100, (2 * rest) % 100 # 0)

(***************************************************************************)
(* The record decoders.  Each is given as the exception the decoder raises *)
(* on a line ("none" when it returns) and the dict it builds when it       *)
(* returns.  The values of a dict display are evaluated in source order,   *)
(* so the first failing one decides the exception.  line[i] raises         *)
(* IndexError on a chunk of i characters or fewer; a slice never raises.   *)
(***************************************************************************)
EmptyDict == [k \in {} |-> k]

\* line[i]
CharAt(line, i) == line[i + 1]

HeaderDateFormat == <<"y", "m", "d", "H", "M">>

BatchDateFormat == <<"y", "m", "d">>

\* _read_header, the try block: the creation date or its fallback
CreationDate(line) ==
    IF StrptimeParses(Slice(line, 23, 33), HeaderDateFormat)
    THEN Strptime(Slice(line, 23, 33), HeaderDateFormat)
    ELSE [str |-> Rep("0", 6)]

HeaderRaises(line) ==
    IF Len(line) <= 33 THEN "IndexError"
    ELSE IF ~IntParses(Strip(Slice(line, 34, 37))) THEN "ValueError"
    ELSE IF ~IntParses(Slice(line, 37, 39)) THEN "ValueError"
    ELSE IF Len(line) <= 39 THEN "IndexError"
    ELSE "none"

\* HeaderDict with the reference code read one column to the right
HeaderDict_ShiftedReference(line) ==
    ("Priority Code" :> Slice(line, 1, 3)) @@
    ("Immediate Destination" :> Strip(Slice(line, 3, 13))) @@
    ("Immediate Origin" :> Slice(line, 13, 23)) @@
    ("Creation Date" :> CreationDate(line)) @@
    ("File ID Modifier" :> <<CharAt(line, 33)>>) @@
    ("Record Size" :> IntValue(Strip(Slice(line, 34, 37)))) @@
    ("Blocking Factor" :> IntValue(Slice(line, 37, 39))) @@
    ("Format Code" :> <<CharAt(line, 39)>>) @@
    ("Immediate Destination Name" :> Strip(Slice(line, 40, 63))) @@
    ("Immediate Origin Name" :> Strip(Slice(line, 63, 86))) @@
    ("Reference Code" :> Slice(line, 87, 94))

HeaderDict(line) ==
    ("Priority Code" :> Slice(line, 1, 3)) @@
    ("Immediate Destination" :> Strip(Slice(line, 3, 13))) @@
    ("Immediate Origin" :> Slice(line, 13, 23)) @@
    ("Creation Date" :> CreationDate(line)) @@
    ("File ID Modifier" :> <<CharAt(line, 33)>>) @@
    ("Record Size" :> IntValue(Strip(Slice(line, 34, 37)))) @@
    ("Blocking Factor" :> IntValue(Slice(line, 37, 39))) @@
    ("Format Code" :> <<CharAt(line, 39)>>) @@
    ("Immediate Destination Name" :> Strip(Slice(line, 40, 63))) @@
    ("Immediate Origin Name" :> Strip(Slice(line, 63, 86))) @@
    ("Reference Code" :> Slice(line, 86, 93))

\* _read_entry_detail, the try block: the account number or its fallback
AccountNumber(line) ==
    IF IntParses(Remove(Strip(Slice(line, 12, 29)), "-"))
    THEN IntValue(Remove(Strip(Slice(line, 12, 29)), "-"))
    ELSE Zero

EntryRaises(line) ==
    IF Len(line) <= 11 THEN "IndexError"
    ELSE IF ~IntParses(Slice(line, 29, 39)) THEN "ValueError"
    ELSE IF Len(line) <= 78 THEN "IndexError"
    ELSE "none"

EntryDict(line) ==
    ("Transaction Code" :> Slice(line, 1, 3)) @@
    ("ReceivingID" :> Slice(line, 3, 11)) @@
    ("CheckDigit" :> <<CharAt(line, 11)>>) @@
    ("Account Number" :> AccountNumber(line)) @@
    ("Amount" :> TrueDiv100(IntValue(Slice(line, 29, 39)))) @@
    ("Individual ID" :> Slice(line, 39, 54)) @@
    ("Receiver Name" :> Strip(Slice(line, 54, 76))) @@
    ("DiscretionaryData" :> Slice(line, 76, 78)) @@
    ("AddendaIndicator" :> <<CharAt(line, 78)>>) @@
    ("TraceNumber" :> Slice(line, 79, 94))

AddendaDict(line) ==
    ("Addenda Type Code:" :> Slice(line, 1, 3)) @@
    ("Payment Related Info" :> Strip(Slice(line, 3, 83))) @@
    ("Addenda Sequence Number" :> Slice(line, 83, 87)) @@
    ("Entry Detail Sequence Number" :> Slice(line, 87, 94))

\* _read_batch_header, the try block: the effective entry date or its fallback
EffectiveEntryDate(line) ==
    IF StrptimeParses(Slice(line, 69, 75), BatchDateFormat)
    THEN Strptime(Slice(line, 69, 75), BatchDateFormat)
    ELSE [str |-> Rep("0", 8)]

BatchHeaderRaises(line) == IF Len(line) <= 78 THEN "IndexError" ELSE "none"

BatchHeaderDict(line) ==
    ("Service Class Code" :> Slice(line, 1, 4)) @@
    ("Company Name" :> Strip(Slice(line, 4, 20))) @@
    ("Company Discretionary Data" :> Strip(Slice(line, 20, 40))) @@
    ("Company ID" :> Strip(Slice(line, 40, 50))) @@
    ("SEC Code" :> Slice(line, 50, 53)) @@
    ("Company Entry Description" :> Strip(Slice(line, 53, 63))) @@
    ("Company Descriptive Date" :> Strip(Slice(line, 63, 69))) @@
    ("Effective Entry Date" :> EffectiveEntryDate(line)) @@
    ("Settlement Date Julian" :> Slice(line, 75, 78)) @@
    ("Originator Status Code" :> <<CharAt(line, 78)>>) @@
    ("Originating DFI ID" :> Slice(line, 79, 87)) @@
    ("Batch Number" :> Slice(line, 87, 94))

BatchControlRaises(line) ==
    IF ~IntParses(Slice(line, 20, 32)) THEN "ValueError"
    ELSE IF ~IntParses(Slice(line, 32, 44)) THEN "ValueError"
    ELSE "none"

BatchControlDict(line) ==
    ("Service Class Code" :> Slice(line, 1, 4)) @@
    ("Entry Addenda Count" :> Slice(line, 4, 10)) @@
    ("Entry Hash" :> Slice(line, 10, 20)) @@
    ("Total Debit Amount" :> TrueDiv100(IntValue(Slice(line, 20, 32)))) @@
    ("Total Credit Amount" :> TrueDiv100(IntValue(Slice(line, 32, 44)))) @@
    ("Company ID" :> Slice(line, 44, 54)) @@
    ("Message Auth Code" :> Strip(Slice(line, 54, 73))) @@
    ("Originating DFI ID" :> Slice(line, 79, 87)) @@
    ("Batch Number" :> Slice(line, 87, 94))

FileControlRaises(line) ==
    IF ~IntParses(Slice(line, 1, 7)) THEN "ValueError"
    ELSE IF ~IntParses(Slice(line, 7, 13)) THEN "ValueError"
    ELSE IF ~IntParses(Slice(line, 13, 21)) THEN "ValueError"
    ELSE IF ~IntParses(Slice(line, 31, 43)) THEN "ValueError"
    ELSE IF ~IntParses(Slice(line, 43, 55)) THEN "ValueError"
    ELSE "none"

FileControlDict(line) ==
    ("Batch Count" :> IntValue(Slice(line, 1, 7))) @@
    ("Block Count" :> IntValue(Slice(line, 7, 13))) @@
    ("Addenda Count" :> IntValue(Slice(line, 13, 21))) @@
    ("Entry Hash" :> Slice(line, 21, 31)) @@
    ("Total Debit Amount" :> TrueDiv100(IntValue(Slice(line, 31, 43)))) @@
    ("Total Credit Amount" :> TrueDiv100(IntValue(Slice(line, 43, 55)))) @@
    ("Reserved Data" :> Strip(Slice(line, 55, 94)))

\* IsPadding comparing with one nine too few
IsPadding_Short(line) == line = Rep("9", 93)

\* line == '9' * 94
IsPadding(line) == line = Rep("9", 94)

\* the first characters _parse_ach_file dispatches on
Tags == {"1", "5", "6", "7", "8", "9"}

(***************************************************************************)
(* The reporting helpers.                                                  *)
(***************************************************************************)
TRANSACTION_CODES ==
    {<<"2", "2">>, <<"2", "1">>, <<"2", "3">>, <<"2", "4">>, <<"3", "1">>, <<"3", "2">>,
     <<"3", "3">>, <<"3", "4">>, <<"2", "6">>, <<"2", "7">>, <<"3", "7">>, <<"4", "2">>,
     <<"4", "7">>, <<"5", "2">>, <<"5", "5">>, <<"3", "6">>, <<"4", "1">>, <<"4", "6">>,
     <<"5", "1">>, <<"5", "6">>, <<"2", "8">>, <<"3", "8">>}

\* pp_entry(entry) raises KeyError: the first print looks the transaction code up
PpEntryRaises(entry) == entry["Transaction Code"] \notin TRANSACTION_CODES

\* search_by_account_number's loop from the i-th entry on, out being the entries
\* pp_entry has printed so far; a KeyError ends the loop
RECURSIVE SearchFrom(_, _, _, _)
SearchFrom(es, account_num, i, out) ==
    IF i > Len(es) THEN [printed |-> out, raised |-> "none"]
    ELSE IF es[i]["Account Number"] = account_num
         THEN IF PpEntryRaises(es[i]) THEN [printed |-> out, raised |-> "KeyError"]
              ELSE SearchFrom(es, account_num, i + 1, Append(out, es[i]))
         ELSE SearchFrom(es, account_num, i + 1, out)

(***************************************************************************)
(* The inputs: files of at most MaxLines lines, which are lines of the     *)
(* catalogue below, each ended by "\r\n", and possibly a last line cut     *)
(* short.  The file is read at most MaxReads times: by the constructor,    *)
(* then by calls of read_file, and between two reads it may be removed or  *)
(* rewritten to any other of these files.                                  *)
(***************************************************************************)
MaxLines == 2

MaxReads == 2

\* a File Header line
\* "101 09100001912345678902301051230A094101DEST BANK              ORIGIN CO              REF00001"
Header ==
    <<"1", "0", "1", " ", "0", "9", "1", "0", "0", "0", "0", "1",
      "9", "1", "2", "3", "4", "5", "6", "7", "8", "9", "0", "2",
      "3", "0", "1", "0", "5", "1", "2", "3", "0", "A", "0", "9",
      "4", "1", "0", "1", "D", "E", "S", "T", " ", "B", "A", "N",
      "K", " ", " ", " ", " ", " ", " ", " ", " ", " ", " ", " ",
      " ", " ", " ", "O", "R", "I", "G", "I", "N", " ", "C", "O",
      " ", " ", " ", " ", " ", " ", " ", " ", " ", " ", " ", " ",
      " ", " ", "R", "E", "F", "0", "0", "0", "0", "1">>

\* Header with a vertical tab after the destination in place of the blank before it
\* "101091000019<U+000B>12345678902301051230A094101DEST BANK              ORIGIN CO              REF00001"
HeaderShifted ==
    <<"1", "0", "1", "0", "9", "1", "0", "0", "0", "0", "1", "9",
      "", "1", "2", "3", "4", "5", "6", "7", "8", "9", "0", "2",
      "3", "0", "1", "0", "5", "1", "2", "3", "0", "A", "0", "9",
      "4", "1", "0", "1", "D", "E", "S", "T", " ", "B", "A", "N",
      "K", " ", " ", " ", " ", " ", " ", " ", " ", " ", " ", " ",
      " ", " ", " ", "O", "R", "I", "G", "I", "N", " ", "C", "O",
      " ", " ", " ", " ", " ", " ", " ", " ", " ", " ", " ", " ",
      " ", " ", "R", "E", "F", "0", "0", "0", "0", "1">>

\* Header created on 29 February 2023
\* "101 09100001912345678902302291200A094101DEST BANK              ORIGIN CO              REF00001"
HeaderBadDate ==
    <<"1", "0", "1", " ", "0", "9", "1", "0", "0", "0", "0", "1",
      "9", "1", "2", "3", "4", "5", "6", "7", "8", "9", "0", "2",
      "3", "0", "2", "2", "9", "1", "2", "0", "0", "A", "0", "9",
      "4", "1", "0", "1", "D", "E", "S", "T", " ", "B", "A", "N",
      "K", " ", " ", " ", " ", " ", " ", " ", " ", " ", " ", " ",
      " ", " ", " ", "O", "R", "I", "G", "I", "N", " ", "C", "O",
      " ", " ", " ", " ", " ", " ", " ", " ", " ", " ", " ", " ",
      " ", " ", "R", "E", "F", "0", "0", "0", "0", "1">>

\* Header with a record size that is no number
\* "101 09100001912345678902301051230A0A4101DEST BANK              ORIGIN CO              REF00001"
HeaderBadSize ==
    <<"1", "0", "1", " ", "0", "9", "1", "0", "0", "0", "0", "1",
      "9", "1", "2", "3", "4", "5", "6", "7", "8", "9", "0", "2",
      "3", "0", "1", "0", "5", "1", "2", "3", "0", "A", "0", "A",
      "4", "1", "0", "1", "D", "E", "S", "T", " ", "B", "A", "N",
      "K", " ", " ", " ", " ", " ", " ", " ", " ", " ", " ", " ",
      " ", " ", " ", "O", "R", "I", "G", "I", "N", " ", "C", "O",
      " ", " ", " ", " ", " ", " ", " ", " ", " ", " ", " ", " ",
      " ", " ", "R", "E", "F", "0", "0", "0", "0", "1">>

\* HeaderBadDate with a record size that is no number
\* "101 09100001912345678902302291200A0A4101DEST BANK              ORIGIN CO              REF00001"
HeaderBadDateBadSize ==
    <<"1", "0", "1", " ", "0", "9", "1", "0", "0", "0", "0", "1",
      "9", "1", "2", "3", "4", "5", "6", "7", "8", "9", "0", "2",
      "3", "0", "2", "2", "9", "1", "2", "0", "0", "A", "0", "A",
      "4", "1", "0", "1", "D", "E", "S", "T", " ", "B", "A", "N",
      "K", " ", " ", " ", " ", " ", " ", " ", " ", " ", " ", " ",
      " ", " ", " ", "O", "R", "I", "G", "I", "N", " ", "C", "O",
      " ", " ", " ", " ", " ", " ", " ", " ", " ", " ", " ", " ",
      " ", " ", "R", "E", "F", "0", "0", "0", "0", "1">>

\* a Batch Header line
\* "5200ACME CORP                           1234567890PPDPAYROLL   230104230105   1091000010000001"
BatchHeader ==
    <<"5", "2", "0", "0", "A", "C", "M", "E", " ", "C", "O", "R",
      "P", " ", " ", " ", " ", " ", " ", " ", " ", " ", " ", " ",
      " ", " ", " ", " ", " ", " ", " ", " ", " ", " ", " ", " ",
      " ", " ", " ", " ", "1", "2", "3", "4", "5", "6", "7", "8",
      "9", "0", "P", "P", "D", "P", "A", "Y", "R", "O", "L", "L",
      " ", " ", " ", "2", "3", "0", "1", "0", "4", "2", "3", "0",
      "1", "0", "5", " ", " ", " ", "1", "0", "9", "1", "0", "0",
      "0", "0", "1", "0", "0", "0", "0", "0", "0", "1">>

\* BatchHeader effective on 29 February 2023
\* "5200ACME CORP                           1234567890PPDPAYROLL   230104230229   1091000010000001"
BatchHeaderBadDate ==
    <<"5", "2", "0", "0", "A", "C", "M", "E", " ", "C", "O", "R",
      "P", " ", " ", " ", " ", " ", " ", " ", " ", " ", " ", " ",
      " ", " ", " ", " ", " ", " ", " ", " ", " ", " ", " ", " ",
      " ", " ", " ", " ", "1", "2", "3", "4", "5", "6", "7", "8",
      "9", "0", "P", "P", "D", "P", "A", "Y", "R", "O", "L", "L",
      " ", " ", " ", "2", "3", "0", "1", "0", "4", "2", "3", "0",
      "2", "2", "9", " ", " ", " ", "1", "0", "9", "1", "0", "0",
      "0", "0", "1", "0", "0", "0", "0", "0", "0", "1">>

\* an Entry Detail line: 17.35 to account 123-456-789
\* "622091000019123-456-789      0000001735ID0001         JOHN DOE                0091000010000001"
Entry ==
    <<"6", "2", "2", "0", "9", "1", "0", "0", "0", "0", "1", "9",
      "1", "2", "3", "-", "4", "5", "6", "-", "7", "8", "9", " ",
      " ", " ", " ", " ", " ", "0", "0", "0", "0", "0", "0", "1",
      "7", "3", "5", "I", "D", "0", "0", "0", "1", " ", " ", " ",
      " ", " ", " ", " ", " ", " ", "J", "O", "H", "N", " ", "D",
      "O", "E", " ", " ", " ", " ", " ", " ", " ", " ", " ", " ",
      " ", " ", " ", " ", " ", " ", "0", "0", "9", "1", "0", "0",
      "0", "0", "1", "0", "0", "0", "0", "0", "0", "1">>

\* an entry whose account number is no number
\* "62709100001912A45            0000000250ID0001         JANE ROE                0091000010000002"
EntryBadAccount ==
    <<"6", "2", "7", "0", "9", "1", "0", "0", "0", "0", "1", "9",
      "1", "2", "A", "4", "5", " ", " ", " ", " ", " ", " ", " ",
      " ", " ", " ", " ", " ", "0", "0", "0", "0", "0", "0", "0",
      "2", "5", "0", "I", "D", "0", "0", "0", "1", " ", " ", " ",
      " ", " ", " ", " ", " ", " ", "J", "A", "N", "E", " ", "R",
      "O", "E", " ", " ", " ", " ", " ", " ", " ", " ", " ", " ",
      " ", " ", " ", " ", " ", " ", "0", "0", "9", "1", "0", "0",
      "0", "0", "1", "0", "0", "0", "0", "0", "0", "2">>

\* an entry whose account number is zero
\* "6220910000190                0000000001ID0001         ANN POE                 0091000010000003"
EntryZeroAccount ==
    <<"6", "2", "2", "0", "9", "1", "0", "0", "0", "0", "1", "9",
      "0", " ", " ", " ", " ", " ", " ", " ", " ", " ", " ", " ",
      " ", " ", " ", " ", " ", "0", "0", "0", "0", "0", "0", "0",
      "0", "0", "1", "I", "D", "0", "0", "0", "1", " ", " ", " ",
      " ", " ", " ", " ", " ", " ", "A", "N", "N", " ", "P", "O",
      "E", " ", " ", " ", " ", " ", " ", " ", " ", " ", " ", " ",
      " ", " ", " ", " ", " ", " ", "0", "0", "9", "1", "0", "0",
      "0", "0", "1", "0", "0", "0", "0", "0", "0", "3">>

\* an entry whose amount is no number
\* "622091000019123-456-789      00000A1735ID0001         JOHN DOE                0091000010000004"
EntryBadAmount ==
    <<"6", "2", "2", "0", "9", "1", "0", "0", "0", "0", "1", "9",
      "1", "2", "3", "-", "4", "5", "6", "-", "7", "8", "9", " ",
      " ", " ", " ", " ", " ", "0", "0", "0", "0", "0", "A", "1",
      "7", "3", "5", "I", "D", "0", "0", "0", "1", " ", " ", " ",
      " ", " ", " ", " ", " ", " ", "J", "O", "H", "N", " ", "D",
      "O", "E", " ", " ", " ", " ", " ", " ", " ", " ", " ", " ",
      " ", " ", " ", " ", " ", " ", "0", "0", "9", "1", "0", "0",
      "0", "0", "1", "0", "0", "0", "0", "0", "0", "4">>

\* an entry whose account number and amount are no numbers
\* "62709100001912A45            00000A0250ID0001         JANE ROE                0091000010000006"
EntryBadAccountBadAmount ==
    <<"6", "2", "7", "0", "9", "1", "0", "0", "0", "0", "1", "9",
      "1", "2", "A", "4", "5", " ", " ", " ", " ", " ", " ", " ",
      " ", " ", " ", " ", " ", "0", "0", "0", "0", "0", "A", "0",
      "2", "5", "0", "I", "D", "0", "0", "0", "1", " ", " ", " ",
      " ", " ", " ", " ", " ", " ", "J", "A", "N", "E", " ", "R",
      "O", "E", " ", " ", " ", " ", " ", " ", " ", " ", " ", " ",
      " ", " ", " ", " ", " ", " ", "0", "0", "9", "1", "0", "0",
      "0", "0", "1", "0", "0", "0", "0", "0", "0", "6">>

\* an entry with a blank account number and a transaction code outside TRANSACTION_CODES
\* "699091000019                 0000000100ID0001         SAM LOE                 0091000010000005"
EntryUnknownCode ==
    <<"6", "9", "9", "0", "9", "1", "0", "0", "0", "0", "1", "9",
      " ", " ", " ", " ", " ", " ", " ", " ", " ", " ", " ", " ",
      " ", " ", " ", " ", " ", "0", "0", "0", "0", "0", "0", "0",
      "1", "0", "0", "I", "D", "0", "0", "0", "1", " ", " ", " ",
      " ", " ", " ", " ", " ", " ", "S", "A", "M", " ", "L", "O",
      "E", " ", " ", " ", " ", " ", " ", " ", " ", " ", " ", " ",
      " ", " ", " ", " ", " ", " ", "0", "0", "9", "1", "0", "0",
      "0", "0", "1", "0", "0", "0", "0", "0", "0", "5">>

\* an Addenda line
\* "705PAYMENT INFO                                                                    00010000001"
Addenda ==
    <<"7", "0", "5", "P", "A", "Y", "M", "E", "N", "T", " ", "I",
      "N", "F", "O", " ", " ", " ", " ", " ", " ", " ", " ", " ",
      " ", " ", " ", " ", " ", " ", " ", " ", " ", " ", " ", " ",
      " ", " ", " ", " ", " ", " ", " ", " ", " ", " ", " ", " ",
      " ", " ", " ", " ", " ", " ", " ", " ", " ", " ", " ", " ",
      " ", " ", " ", " ", " ", " ", " ", " ", " ", " ", " ", " ",
      " ", " ", " ", " ", " ", " ", " ", " ", " ", " ", " ", "0",
      "0", "0", "1", "0", "0", "0", "0", "0", "0", "1">>

\* a Batch Control line
\* "820000000200091000010000000017350000000002501234567890                         091000010000001"
BatchControl ==
    <<"8", "2", "0", "0", "0", "0", "0", "0", "0", "2", "0", "0",
      "0", "9", "1", "0", "0", "0", "0", "1", "0", "0", "0", "0",
      "0", "0", "0", "0", "1", "7", "3", "5", "0", "0", "0", "0",
      "0", "0", "0", "0", "0", "2", "5", "0", "1", "2", "3", "4",
      "5", "6", "7", "8", "9", "0", " ", " ", " ", " ", " ", " ",
      " ", " ", " ", " ", " ", " ", " ", " ", " ", " ", " ", " ",
      " ", " ", " ", " ", " ", " ", " ", "0", "9", "1", "0", "0",
      "0", "0", "1", "0", "0", "0", "0", "0", "0", "1">>

\* a File Control line
\* "9000001000001000000020009100001000000001735000000000250                                       "
FileControl ==
    <<"9", "0", "0", "0", "0", "0", "1", "0", "0", "0", "0", "0",
      "1", "0", "0", "0", "0", "0", "0", "0", "2", "0", "0", "0",
      "9", "1", "0", "0", "0", "0", "1", "0", "0", "0", "0", "0",
      "0", "0", "0", "1", "7", "3", "5", "0", "0", "0", "0", "0",
      "0", "0", "0", "0", "2", "5", "0", " ", " ", " ", " ", " ",
      " ", " ", " ", " ", " ", " ", " ", " ", " ", " ", " ", " ",
      " ", " ", " ", " ", " ", " ", " ", " ", " ", " ", " ", " ",
      " ", " ", " ", " ", " ", " ", " ", " ", " ", " ">>

\* a File Control line with other counts, the 2 of its batch count an
\* ARABIC-INDIC DIGIT TWO
\* "900000<U+0662>000001000000020009100001000000001735999999999999                                       "
FileControlTwo ==
    <<"9", "0", "0", "0", "0", "0", "U+0662", "0", "0", "0", "0", "0",
      "1", "0", "0", "0", "0", "0", "0", "0", "2", "0", "0", "0",
      "9", "1", "0", "0", "0", "0", "1", "0", "0", "0", "0", "0",
      "0", "0", "0", "1", "7", "3", "5", "9", "9", "9", "9", "9",
      "9", "9", "9", "9", "9", "9", "9", " ", " ", " ", " ", " ",
      " ", " ", " ", " ", " ", " ", " ", " ", " ", " ", " ", " ",
      " ", " ", " ", " ", " ", " ", " ", " ", " ", " ", " ", " ",
      " ", " ", " ", " ", " ", " ", " ", " ", " ", " ">>

\* a block padding line
\* "9999999999999999999999999999999999999999999999999999999999999999999999999999999999999999999999"
Padding ==
    <<"9", "9", "9", "9", "9", "9", "9", "9", "9", "9", "9", "9",
      "9", "9", "9", "9", "9", "9", "9", "9", "9", "9", "9", "9",
      "9", "9", "9", "9", "9", "9", "9", "9", "9", "9", "9", "9",
      "9", "9", "9", "9", "9", "9", "9", "9", "9", "9", "9", "9",
      "9", "9", "9", "9", "9", "9", "9", "9", "9", "9", "9", "9",
      "9", "9", "9", "9", "9", "9", "9", "9", "9", "9", "9", "9",
      "9", "9", "9", "9", "9", "9", "9", "9", "9", "9", "9", "9",
      "9", "9", "9", "9", "9", "9", "9", "9", "9", "9">>

\* a line with no known tag
\* "XCOMMENT                                                                                      "
Unknown ==
    <<"X", "C", "O", "M", "M", "E", "N", "T", " ", " ", " ", " ",
      " ", " ", " ", " ", " ", " ", " ", " ", " ", " ", " ", " ",
      " ", " ", " ", " ", " ", " ", " ", " ", " ", " ", " ", " ",
      " ", " ", " ", " ", " ", " ", " ", " ", " ", " ", " ", " ",
      " ", " ", " ", " ", " ", " ", " ", " ", " ", " ", " ", " ",
      " ", " ", " ", " ", " ", " ", " ", " ", " ", " ", " ", " ",
      " ", " ", " ", " ", " ", " ", " ", " ", " ", " ", " ", " ",
      " ", " ", " ", " ", " ", " ", " ", " ", " ", " ">>

\* the first 11 characters of an Addenda line
\* "705PAYMENT "
ShortAddenda ==
    <<"7", "0", "5", "P", "A", "Y", "M", "E", "N", "T", " ">>

\* a padding line cut to 50 characters
\* "99999999999999999999999999999999999999999999999999"
ShortPadding ==
    <<"9", "9", "9", "9", "9", "9", "9", "9", "9", "9", "9", "9",
      "9", "9", "9", "9", "9", "9", "9", "9", "9", "9", "9", "9",
      "9", "9", "9", "9", "9", "9", "9", "9", "9", "9", "9", "9",
      "9", "9", "9", "9", "9", "9", "9", "9", "9", "9", "9", "9",
      "9", "9">>


Catalogue ==
    {Header, HeaderShifted, HeaderBadDate, HeaderBadSize, HeaderBadDateBadSize,
     BatchHeader, BatchHeaderBadDate, Entry, EntryBadAccount, EntryZeroAccount,
     EntryBadAmount, EntryBadAccountBadAmount, EntryUnknownCode, Addenda, BatchControl,
     FileControl, FileControlTwo, Padding, Unknown}

ShortLines == {ShortAddenda, ShortPadding}

\* the account numbers searched for: 0 and 123456789
SearchKeys == {Zero, <<"1", "2", "3", "4", "5", "6", "7", "8", "9">>}

RECURSIVE FileText(_, _)
FileText(lines, last) ==
    IF lines = << >> THEN last
    ELSE Head(lines) \o <<"\r", "\n">> \o FileText(Tail(lines), last)

LineSeqs == UNION {[1..n -> Catalogue] : n \in 0..MaxLines}

\* the texts the file may hold
Files ==
    {FileText(lines, last) : lines \in {l \in LineSeqs : Len(l) < MaxLines},
                             last \in ShortLines \cup {<< >>}}
        \cup {FileText(lines, << >>) : lines \in LineSeqs}

\* read_file: ach_file.read().replace('\n', '').replace('\r', '')
ReadContents(text) == Remove(Remove(text, "\n"), "\r")

\* the buffers read_file hands to _parse_ach_file
Buffers == {ReadContents(text) : text \in Files}

(***************************************************************************)
(* The reader.  read_file, called by the constructor and then by whoever   *)
(* holds the reader, parses the whole file: pc is "parse" while            *)
(* _parse_ach_file loops, "done" once read_file has returned, "aborted"    *)
(* when an exception has left it (raised says which); "searched" and       *)
(* "search_raised" after search_by_account_number.  contents and index are *)
(* those of the last call of _parse_ach_file, reads counts the calls of    *)
(* read_file; account_num, printed, raised and not_found (read_file has    *)
(* printed "File does not exist") are those of the last call made on the   *)
(* reader.                                                                 *)
(***************************************************************************)
VARIABLES contents, index, pc, raised, file_header, file_control_record, batch_headers,
          batch_control_records, entries, addenda_records, account_num, printed, reads,
          not_found

parsed == <<file_header, file_control_record, batch_headers, batch_control_records,
            entries, addenda_records>>

vars == <<contents, index, pc, raised, file_header, file_control_record, batch_headers,
          batch_control_records, entries, addenda_records, account_num, printed, reads,
          not_found>>

\* __init__ up to the loop of _parse_ach_file: the file is opened and read, or has
\* gone since os.path.isfile saw it and read_file returns at once
Init ==
    /\ \/ /\ contents \in Buffers
          /\ pc = "parse"
          /\ not_found = FALSE
       \/ /\ contents = << >>
          /\ pc = "done"
          /\ not_found = TRUE
    /\ index = 0
    /\ raised = "none"
    /\ file_header = EmptyDict
    /\ file_control_record = EmptyDict
    /\ batch_headers = << >>
    /\ batch_control_records = << >>
    /\ entries = << >>
    /\ addenda_records = << >>
    /\ account_num = << >>
    /\ printed = << >>
    /\ reads = 1

\* contents[index:index + self.LINE_LENGTH]
Line == Slice(contents, index, index + LINE_LENGTH)

\* the loop has a next chunk
InLoop == pc = "parse" /\ index < Len(contents)

\* list.append(item)
ListAppend(list, item) == Append(list, item)

\* self.file_header = {...}, self.file_control_record = {...}: the slot takes the
\* new dict whatever it held
Assign(slot, dict) == dict

\* the next iteration of the for loop
Continue ==
    /\ index' = index + LINE_LENGTH
    /\ UNCHANGED <<contents, pc, raised, account_num, printed, reads, not_found>>

\* an exception nothing catches: it leaves _parse_ach_file and read_file, and
\* __init__ when it made the call
Abort(exception) ==
    /\ pc' = "aborted"
    /\ raised' = exception
    /\ UNCHANGED <<contents, index, parsed, account_num, printed, reads, not_found>>

ReadHeader ==
    /\ InLoop
    /\ StartsWith(Line, "1")
    /\ IF HeaderRaises(Line) = "none"
       THEN /\ file_header' = Assign(file_header, HeaderDict(Line))
            /\ Continue
            /\ UNCHANGED <<file_control_record, batch_headers, batch_control_records,
                           entries, addenda_records>>
       ELSE Abort(HeaderRaises(Line))

ReadBatchHeader ==
    /\ InLoop
    /\ StartsWith(Line, "5")
    /\ IF BatchHeaderRaises(Line) = "none"
       THEN /\ batch_headers' = ListAppend(batch_headers, BatchHeaderDict(Line))
            /\ Continue
            /\ UNCHANGED <<file_header, file_control_record, batch_control_records,
                           entries, addenda_records>>
       ELSE Abort(BatchHeaderRaises(Line))

ReadEntryDetail ==
    /\ InLoop
    /\ StartsWith(Line, "6")
    /\ IF EntryRaises(Line) = "none"
       THEN /\ entries' = ListAppend(entries, EntryDict(Line))
            /\ Continue
            /\ UNCHANGED <<file_header, file_control_record, batch_headers,
                           batch_control_records, addenda_records>>
       ELSE Abort(EntryRaises(Line))

ReadAddendaRecord ==
    /\ InLoop
    /\ StartsWith(Line, "7")
    /\ addenda_records' = ListAppend(addenda_records, AddendaDict(Line))
    /\ Continue
    /\ UNCHANGED <<file_header, file_control_record, batch_headers, batch_control_records,
                   entries>>

ReadBatchControlRecord ==
    /\ InLoop
    /\ StartsWith(Line, "8")
    /\ IF BatchControlRaises(Line) = "none"
       THEN /\ batch_control_records' =
                   ListAppend(batch_control_records, BatchControlDict(Line))
            /\ Continue
            /\ UNCHANGED <<file_header, file_control_record, batch_headers, entries,
                           addenda_records>>
       ELSE Abort(BatchControlRaises(Line))

\* a line of 94 nines: continue
SkipPadding ==
    /\ InLoop
    /\ StartsWith(Line, "9")
    /\ IsPadding(Line)
    /\ Continue
    /\ UNCHANGED parsed

ReadFileControlRecord ==
    /\ InLoop
    /\ StartsWith(Line, "9")
    /\ ~IsPadding(Line)
    /\ IF FileControlRaises(Line) = "none"
       THEN /\ file_control_record' = Assign(file_control_record, FileControlDict(Line))
            /\ Continue
            /\ UNCHANGED <<file_header, batch_headers, batch_control_records, entries,
                           addenda_records>>
       ELSE Abort(FileControlRaises(Line))

\* no branch of the if chain takes the line
IgnoreLine ==
    /\ InLoop
    /\ Line[1] \notin Tags
    /\ Continue
    /\ UNCHANGED parsed

\* the range is exhausted: _parse_ach_file and read_file return, and __init__ when
\* it made the call
Return ==
    /\ pc = "parse"
    /\ index >= Len(contents)
    /\ pc' = "done"
    /\ UNCHANGED <<contents, index, raised, parsed, account_num, printed, reads, not_found>>

\* the constructor has returned and no call is running on the reader: an exception
\* out of the constructor leaves no reader, one out of a later call leaves the reader
\* as it was when it was raised
Constructed == pc # "parse" /\ (reads = 1 => pc # "aborted")

\* read_file() on the constructed reader, the file in place: the text it holds by
\* now is read and parsed into the slots and collections as they stand
ReadFile ==
    /\ Constructed
    /\ reads < MaxReads
    /\ contents' \in Buffers
    /\ reads' = reads + 1
    /\ index' = 0
    /\ pc' = "parse"
    /\ raised' = "none"
    /\ account_num' = << >>
    /\ printed' = << >>
    /\ not_found' = FALSE
    /\ UNCHANGED parsed

\* read_file() on the constructed reader, the file removed: open raises
\* FileNotFoundError, which is caught and printed, and nothing is parsed
ReadFileNotFound ==
    /\ Constructed
    /\ reads < MaxReads
    /\ reads' = reads + 1
    /\ pc' = "done"
    /\ raised' = "none"
    /\ account_num' = << >>
    /\ printed' = << >>
    /\ not_found' = TRUE
    /\ UNCHANGED <<contents, index, parsed>>

\* search_by_account_number(n) on the constructed reader
SearchByAccountNumber ==
    /\ Constructed
    /\ \E n \in SearchKeys :
           LET r == SearchFrom(entries, n, 1, << >>)
           IN  /\ account_num' = n
               /\ printed' = r.printed
               /\ raised' = r.raised
               /\ pc' = IF r.raised = "none" THEN "searched" ELSE "search_raised"
    /\ not_found' = FALSE
    /\ UNCHANGED <<contents, index, parsed, reads>>

Next ==
    \/ ReadHeader
    \/ ReadBatchHeader
    \/ ReadEntryDetail
    \/ ReadAddendaRecord
    \/ ReadBatchControlRecord
    \/ SkipPadding
    \/ ReadFileControlRecord
    \/ IgnoreLine
    \/ Return
    \/ ReadFile
    \/ ReadFileNotFound
    \/ SearchByAccountNumber

Spec == Init /\ [][Next]_vars

(***************************************************************************)
(* What the properties below speak about: the chunks of the buffer of the  *)
(* last parse, those the loop has taken, the elements the collections      *)
(* gained from them and the dicts expected.                                *)
(***************************************************************************)
NumChunks == (Len(contents) + LINE_LENGTH - 1) \div LINE_LENGTH

\* the i-th chunk of the buffer, i from 1
Chunk(i) == SubSeq(contents, (i - 1) * LINE_LENGTH + 1, Min(i * LINE_LENGTH, Len(contents)))

\* the number of chunks whose decoder has returned
NumTaken == Min(index \div LINE_LENGTH, NumChunks)

Nines == [i \in 1..LINE_LENGTH |-> "9"]

\* the chunk is a record line of type tag ('9': a File Control line, not padding)
HasTag(c, tag) == c[1] = tag /\ c # Nines

\* the positions, in file order, of the chunks of type tag among the first n
Tagged(tag, n) == SelectSeq([i \in 1..n |-> i], LAMBDA i : HasTag(Chunk(i), tag))

\* the positions of the chunks of type tag taken in the last parse
Taken(tag) == Tagged(tag, NumTaken)

\* the elements the list gained in the last parse: its last ones, one for each chunk
\* of type tag taken
Gained(list, tag) == SubSeq(list, Len(list) - Len(Taken(tag)) + 1, Len(list))

\* the last parse ran to the end of its buffer, or an exception left it
Parsed == pc # "parse" /\ index >= Len(contents)

ParseAborted == pc # "parse" /\ index < Len(contents)

Last(s) == s[Len(s)]

Truncated == Len(contents) % LINE_LENGTH # 0

IsPrefix(a, b) == Len(a) <= Len(b) /\ SubSeq(b, 1, Len(a)) = a

\* the line with columns a..b-1 (0-based) replaced by text
WithField(line, a, text) ==
    SubSeq(line, 1, a) \o text \o SubSeq(line, a + Len(text) + 1, Len(line))

\* the number of date and numeric fields of a record line that do not parse
Bad(ok) == IF ok THEN 0 ELSE 1

Malformed(c) ==
    CASE c[1] = "1" -> Bad(StrptimeParses(SubSeq(c, 24, 33), HeaderDateFormat))
                       + Bad(IntParses(Strip(SubSeq(c, 35, 37))))
                       + Bad(IntParses(SubSeq(c, 38, 39)))
      [] c[1] = "5" -> Bad(StrptimeParses(SubSeq(c, 70, 75), BatchDateFormat))
      [] c[1] = "6" -> Bad(IntParses(Remove(Strip(SubSeq(c, 13, 29)), "-")))
                       + Bad(IntParses(SubSeq(c, 30, 39)))
      [] c[1] = "8" -> Bad(IntParses(SubSeq(c, 21, 32))) + Bad(IntParses(SubSeq(c, 33, 44)))
      [] HasTag(c, "9") -> Bad(IntParses(SubSeq(c, 2, 7))) + Bad(IntParses(SubSeq(c, 8, 13)))
                           + Bad(IntParses(SubSeq(c, 14, 21)))
                           + Bad(IntParses(SubSeq(c, 32, 43)))
                           + Bad(IntParses(SubSeq(c, 44, 55)))
      [] OTHER -> 0

RECURSIVE MalformedIn(_)
MalformedIn(n) == IF n = 0 THEN 0 ELSE MalformedIn(n - 1) + Malformed(Chunk(n))

(***************************************************************************)
(* C1.  A buffer whose length is no multiple of 94 ends the parse in       *)
(* TruncatedFileError, and nothing is built from its short last chunk: the *)
(* step that takes the short chunk leaves the slots and the collections as *)
(* they were.                                                              *)
(***************************************************************************)
AtShortChunk == pc = "parse" /\ index < Len(contents)
                /\ Len(Chunk(index \div LINE_LENGTH + 1)) < LINE_LENGTH

C1_TruncatedIsHardError ==
    /\ [](Truncated /\ pc # "parse" =>
              /\ ParseAborted
              /\ pc = "aborted" => raised = "TruncatedFileError")
    /\ [][AtShortChunk => UNCHANGED parsed]_vars

(***************************************************************************)
(* C2.  A buffer of 94-character lines of which one line has one malformed *)
(* date or numeric field is parsed to its end, and every record line of it *)
(* has its record in the result.                                           *)
(***************************************************************************)
OneMalformedField == ~Truncated /\ MalformedIn(NumChunks) = 1

C2_FieldFailureIsNeverFatal ==
    OneMalformedField =>
        /\ ~ParseAborted
        /\ Parsed =>
               /\ Len(batch_headers) >= Len(Tagged("5", NumChunks))
               /\ Len(entries) >= Len(Tagged("6", NumChunks))
               /\ Len(addenda_records) >= Len(Tagged("7", NumChunks))
               /\ Len(batch_control_records) >= Len(Tagged("8", NumChunks))
               /\ Tagged("1", NumChunks) # << >> => file_header # EmptyDict
               /\ Tagged("9", NumChunks) # << >> => file_control_record # EmptyDict

(***************************************************************************)
(* C3.  A line of 94 nines is block padding: the step that takes it leaves *)
(* the file header, the file control record and the four collections as    *)
(* they were, and the loop goes on with the next line.                     *)
(***************************************************************************)
AtPadding == pc = "parse" /\ index < Len(contents) /\ Chunk(index \div LINE_LENGTH + 1) = Nines

C3_PaddingChangesNothing ==
    [][AtPadding => /\ UNCHANGED parsed
                    /\ pc' = "parse"
                    /\ index' = index + LINE_LENGTH]_vars

\* a padding line has been taken after a File Control line was decoded
C3_Witness ==
    /\ NumTaken >= 2
    /\ Chunk(1) = FileControl
    /\ Chunk(2) = Nines
    /\ file_control_record = FileControlDict(FileControl)

(***************************************************************************)
(* C4.  Each 94-character line changes only the target of its tag, and     *)
(* always does: '5', '6', '7', '8' append one dict to their collection,    *)
(* '1' and a non-padding '9' write their slot, any other line changes      *)
(* nothing, and the loop goes on.  The file of a File Header line and a    *)
(* File Control line gives a reader with both slots and four empty         *)
(* collections.                                                            *)
(***************************************************************************)
AtFullLine == pc = "parse" /\ index < Len(contents)
              /\ Len(Chunk(index \div LINE_LENGTH + 1)) = LINE_LENGTH

Current == Chunk(index \div LINE_LENGTH + 1)

OneMore(list, list2) == Len(list2) = Len(list) + 1 /\ IsPrefix(list, list2)

C4_Step ==
    AtFullLine =>
        /\ pc' = "parse" /\ index' = index + LINE_LENGTH
        /\ Current[1] = "5" =>
               /\ OneMore(batch_headers, batch_headers')
               /\ UNCHANGED <<file_header, file_control_record, batch_control_records,
                              entries, addenda_records>>
        /\ Current[1] = "6" =>
               /\ OneMore(entries, entries')
               /\ UNCHANGED <<file_header, file_control_record, batch_headers,
                              batch_control_records, addenda_records>>
        /\ Current[1] = "7" =>
               /\ OneMore(addenda_records, addenda_records')
               /\ UNCHANGED <<file_header, file_control_record, batch_headers,
                              batch_control_records, entries>>
        /\ Current[1] = "8" =>
               /\ OneMore(batch_control_records, batch_control_records')
               /\ UNCHANGED <<file_header, file_control_record, batch_headers, entries,
                              addenda_records>>
        /\ Current[1] = "1" =>
               /\ file_header' # EmptyDict
               /\ UNCHANGED <<file_control_record, batch_headers, batch_control_records,
                              entries, addenda_records>>
        /\ HasTag(Current, "9") =>
               /\ file_control_record' # EmptyDict
               /\ UNCHANGED <<file_header, batch_headers, batch_control_records, entries,
                              addenda_records>>
        /\ Current[1] \notin Tags => UNCHANGED parsed

HeaderThenControl ==
    /\ NumChunks = 2
    /\ ~Truncated
    /\ Chunk(1)[1] = "1"
    /\ HasTag(Chunk(2), "9")

C4_DispatchTouchesOnlyItsTarget ==
    /\ [][C4_Step]_vars
    /\ [](reads = 1 /\ HeaderThenControl /\ pc # "parse" =>
              /\ Constructed
              /\ file_header # EmptyDict
              /\ file_control_record # EmptyDict
              /\ batch_headers = << >> /\ entries = << >>
              /\ addenda_records = << >> /\ batch_control_records = << >>)

(***************************************************************************)
(* C5.  The four collections only grow at their end, and whenever the      *)
(* parse of a buffer of full lines has finished each holds exactly the     *)
(* decodings of the buffer's lines of its type, in file order.             *)
(***************************************************************************)
Decoded(tag, n, D(_)) ==
    [j \in 1..Len(Tagged(tag, n)) |-> D(Chunk(Tagged(tag, n)[j]))]

C5_CollectionsAppendInFileOrder ==
    /\ [][/\ IsPrefix(batch_headers, batch_headers')
          /\ IsPrefix(batch_control_records, batch_control_records')
          /\ IsPrefix(entries, entries')
          /\ IsPrefix(addenda_records, addenda_records')]_vars
    /\ [](Parsed /\ ~Truncated =>
              /\ batch_headers = Decoded("5", NumChunks, BatchHeaderDict)
              /\ batch_control_records = Decoded("8", NumChunks, BatchControlDict)
              /\ entries = Decoded("6", NumChunks, EntryDict)
              /\ addenda_records = Decoded("7", NumChunks, AddendaDict))

(***************************************************************************)
(* C6.  Once a buffer of full lines is parsed, the file header is the      *)
(* decoding of the last '1' line and the file control record that of the   *)
(* last non-padding '9' line, or the empty dict when there is no such      *)
(* line; and a buffer all of whose lines decode is parsed to its end,      *)
(* however many '1' and '9' lines it has.                                  *)
(***************************************************************************)
LastDecoded(tag, D(_)) ==
    LET lines == Tagged(tag, NumChunks)
    IN  IF lines = << >> THEN EmptyDict ELSE D(Chunk(Last(lines)))

\* the decoder of the chunk returns
Decodes(c) ==
    CASE c[1] = "1" -> HeaderRaises(c) = "none"
      [] c[1] = "5" -> BatchHeaderRaises(c) = "none"
      [] c[1] = "6" -> EntryRaises(c) = "none"
      [] c[1] = "8" -> BatchControlRaises(c) = "none"
      [] HasTag(c, "9") -> FileControlRaises(c) = "none"
      [] OTHER -> TRUE

C6_SlotsKeepTheLastLine ==
    /\ Parsed /\ ~Truncated =>
           /\ file_header = LastDecoded("1", HeaderDict)
           /\ file_control_record = LastDecoded("9", FileControlDict)
    /\ (~Truncated /\ \A i \in 1..NumChunks : Decodes(Chunk(i))) => ~ParseAborted

(***************************************************************************)
(* C7.  A date that does not parse never aborts a decode: the parse is not *)
(* left at a Batch Header or File Header line with such a date.  The dict  *)
(* of a Batch Header line with such an effective entry date is appended,   *)
(* and is the dict of the same line with a valid date but for the date,    *)
(* which is '00000000'; the file header written from a File Header line    *)
(* with such a creation date is the dict of the same line with a valid     *)
(* date but for the date, which is '000000'.                               *)
(***************************************************************************)
GoodBatchDate == <<"2", "3", "0", "1", "0", "5">>

GoodHeaderDate == <<"2", "3", "0", "1", "0", "5", "1", "2", "3", "0">>

BadBatchDate(c) ==
    /\ c[1] = "5"
    /\ Len(c) = LINE_LENGTH
    /\ ~StrptimeParses(SubSeq(c, 70, 75), BatchDateFormat)

BadHeaderDate(c) ==
    /\ c[1] = "1"
    /\ Len(c) = LINE_LENGTH
    /\ ~StrptimeParses(SubSeq(c, 24, 33), HeaderDateFormat)

C7_BadDateGivesSentinel ==
    /\ LET taken == Taken("5")
           gained == Gained(batch_headers, "5")
       IN  /\ Len(batch_headers) >= Len(taken)
           /\ \A j \in 1..Len(taken) :
                  LET c == Chunk(taken[j])
                  IN  BadBatchDate(c) =>
                          gained[j] =
                              [BatchHeaderDict(WithField(c, 69, GoodBatchDate))
                                   EXCEPT !["Effective Entry Date"] =
                                       [str |-> <<"0", "0", "0", "0", "0", "0", "0", "0">>]]
    /\ LET taken == Taken("1")
           c == Chunk(Last(taken))
       IN  (taken # << >> /\ BadHeaderDate(c)) =>
                   file_header =
                       [HeaderDict(WithField(c, 23, GoodHeaderDate))
                            EXCEPT !["Creation Date"] =
                                       [str |-> <<"0", "0", "0", "0", "0", "0">>]]
    /\ ParseAborted => ~BadBatchDate(Current) /\ ~BadHeaderDate(Current)

(***************************************************************************)
(* C8.  Every decoded amount is its minor-unit field over 100 exactly:     *)
(* the Amount of an entry, and the debit and credit totals of the Batch    *)
(* Control and File Control records.  A double m * 2^(exp-52), m its       *)
(* significand as an integer, is n / 100 exactly when 100 * m is           *)
(* n * 2^(52-exp); both sides are computed on decimal numerals.            *)
(***************************************************************************)
\* the decimal numeral of the natural number c
RECURSIVE Numeral(_)
Numeral(c) ==
    IF c < 10 THEN <<DigitChars[c + 1]>>
    ELSE Numeral(c \div 10) \o <<DigitChars[(c % 10) + 1]>>

\* the digits of ds[1..i] times m plus c, for m and c up to 2^15
RECURSIVE MulFrom(_, _, _, _)
MulFrom(ds, i, m, c) ==
    IF i = 0 THEN Numeral(c)
    ELSE LET v == DigitVal(ds[i]) * m + c
         IN  IF v >= 0 THEN MulFrom(ds, i - 1, m, v \div 10) \o <<DigitChars[(v % 10) + 1]>>
             ELSE << >>

\* the decimal numeral of m times the number with numeral ds, plus c
MulAdd(ds, m, c) == DropZeros(MulFrom(ds, Len(ds), m, c))

\* the number whose bits are the given ones, at most fifteen
RECURSIVE BitsValue(_)
BitsValue(bits) ==
    IF bits = << >> THEN 0
    ELSE 2 * BitsValue(SubSeq(bits, 1, Len(bits) - 1)) + bits[Len(bits)]

\* the decimal numeral of the number with the given bits
RECURSIVE FromBits(_)
FromBits(bits) ==
    LET n == Len(bits)
    IN  IF n <= 15 THEN Numeral(BitsValue(bits))
        ELSE MulAdd(FromBits(SubSeq(bits, 1, n - 15)), 32768,
                    BitsValue(SubSeq(bits, n - 14, n)))

\* the decimal numeral of 2^e times the number with numeral ds
RECURSIVE TimesPow2(_, _)
TimesPow2(ds, e) ==
    IF e <= 15 THEN MulAdd(ds, 2^e, 0) ELSE TimesPow2(MulAdd(ds, 32768, 0), e - 15)

\* the double x is exactly n / 100
ExactHundredth(x, n) ==
    IF n = Zero THEN x = FloatZero
    ELSE /\ x.mant # << >>
         /\ x.neg = (n[1] = "-")
         /\ x.exp <= MantBits - 1
         /\ FromBits(x.mant) \o <<"0", "0">> =
                TimesPow2(IF n[1] = "-" THEN Tail(n) ELSE n, MantBits - 1 - x.exp)

C8_AmountsAreExact ==
    /\ LET taken == Taken("6")
           gained == Gained(entries, "6")
       IN  /\ Len(entries) >= Len(taken)
           /\ \A j \in 1..Len(taken) :
                  ExactHundredth(gained[j]["Amount"],
                                 IntValue(SubSeq(Chunk(taken[j]), 30, 39)))
    /\ LET taken == Taken("8")
           gained == Gained(batch_control_records, "8")
       IN  /\ Len(batch_control_records) >= Len(taken)
           /\ \A j \in 1..Len(taken) :
                  LET c == Chunk(taken[j])
                  IN  /\ ExactHundredth(gained[j]["Total Debit Amount"],
                                        IntValue(SubSeq(c, 21, 32)))
                      /\ ExactHundredth(gained[j]["Total Credit Amount"],
                                        IntValue(SubSeq(c, 33, 44)))
    /\ (~Truncated /\ Taken("9") # << >>) =>
           LET c == Chunk(Last(Taken("9")))
           IN  /\ ExactHundredth(file_control_record["Total Debit Amount"],
                                 IntValue(SubSeq(c, 32, 43)))
               /\ ExactHundredth(file_control_record["Total Credit Amount"],
                                 IntValue(SubSeq(c, 44, 55)))

(***************************************************************************)
(* C9.  The file header and the line it was decoded from.                  *)
(***************************************************************************)
\* a File Header line every field of which parses
ValidHeader(c) ==
    /\ c[1] = "1"
    /\ Len(c) = LINE_LENGTH
    /\ StrptimeParses(SubSeq(c, 24, 33), HeaderDateFormat)
    /\ IntParses(Strip(SubSeq(c, 35, 37)))
    /\ IntParses(SubSeq(c, 38, 39))

\* the line the file header was decoded from
HeaderLine == Chunk(Last(Taken("1")))

HeaderTaken == LET taken == Taken("1") IN taken # << >> /\ ValidHeader(Chunk(Last(taken)))

\* columns 1 to 92, the field ranges of the File Header
FieldRanges(c) == SubSeq(c, 2, 93)

\* the fields stored as they stand in the line: priority 1-3, origin 13-23,
\* modifier 33, format 39, reference 86-93
RawRanges(c) == <<SubSeq(c, 2, 3), SubSeq(c, 14, 23), c[34], c[40], SubSeq(c, 87, 93)>>

\* As claimed: decoding is one-to-one on the field ranges, so no valid File Header
\* line of the buffer that differs from the decoded one inside a field range decodes
\* to the file header.
C9_DecodingIsOneToOne ==
    HeaderTaken =>
        LET line == HeaderLine
        IN  \A i \in 1..NumChunks :
                LET c == Chunk(i)
                IN  (ValidHeader(c) /\ HeaderDict(c) = file_header) =>
                        FieldRanges(c) = FieldRanges(line)

\* As amended: the fields stored as they stand reproduce their ranges, so lines that
\* differ there never decode alike; a trimmed field is its range without the
\* surrounding whitespace, a number the value of its range, the date the date its
\* range is parsed to.
C9_RawFieldsRoundTrip ==
    HeaderTaken =>
        LET line == HeaderLine
        IN  /\ <<file_header["Priority Code"], file_header["Immediate Origin"],
                 file_header["File ID Modifier"][1], file_header["Format Code"][1],
                 file_header["Reference Code"]>> = RawRanges(line)
            /\ file_header["Immediate Destination"] = Strip(SubSeq(line, 4, 13))
            /\ file_header["Immediate Destination Name"] = Strip(SubSeq(line, 41, 63))
            /\ file_header["Immediate Origin Name"] = Strip(SubSeq(line, 64, 86))
            /\ file_header["Record Size"] = IntValue(Strip(SubSeq(line, 35, 37)))
            /\ file_header["Blocking Factor"] = IntValue(SubSeq(line, 38, 39))
            /\ file_header["Creation Date"] = Strptime(SubSeq(line, 24, 33), HeaderDateFormat)
            /\ \A i \in 1..NumChunks :
                   LET c == Chunk(i)
                   IN  (ValidHeader(c) /\ HeaderDict(c) = file_header) =>
                           RawRanges(c) = RawRanges(line)

\* the file header was decoded from a line that another line of the buffer matches
\* but for the whitespace around the destination
C9_Witness ==
    /\ NumTaken = 2
    /\ Chunk(1) = HeaderShifted
    /\ Chunk(2) = Header
    /\ file_header = HeaderDict(Header)

(***************************************************************************)
(* C10.  Every Entry Detail line has its entry: the parse is not left at   *)
(* an Entry Detail line whose account number field, trimmed and without    *)
(* hyphens, is no integer; the entry of such a line is the one of the same *)
(* line with account number zero, and the entry of a line whose field is   *)
(* an integer holds that integer.  A search for account 0 prints every     *)
(* entry whose account number is 0, of either kind.                        *)
(***************************************************************************)
Cleaned(c) == Remove(Strip(SubSeq(c, 13, 29)), "-")

ZeroAccount == [i \in 1..17 |-> "0"]

C10_BadAccountNumberIsZero ==
    LET taken == Taken("6")
        gained == Gained(entries, "6")
    IN  /\ Len(entries) >= Len(taken)
        /\ \A j \in 1..Len(taken) :
               LET c == Chunk(taken[j])
                   cleaned == Cleaned(c)
               IN  Len(c) = LINE_LENGTH =>
                       IF IntParses(cleaned)
                       THEN gained[j]["Account Number"] = IntValue(cleaned)
                       ELSE /\ gained[j]["Account Number"] = Zero
                            /\ gained[j] = EntryDict(WithField(c, 12, ZeroAccount))
        /\ ParseAborted =>
               ~(Current[1] = "6" /\ Len(Current) = LINE_LENGTH
                     /\ ~IntParses(Cleaned(Current)))
        /\ (pc \in {"searched", "search_raised"} /\ account_num = Zero) =>
               \A j \in 1..Len(entries) :
                   entries[j]["Account Number"] = Zero =>
                       \E k \in 1..Len(printed) : printed[k] = entries[j]

====
